---------------------------- MODULE Spec2Model ----------------------------
(***************************************************************************)
(* A model of the generalized Sudoku solvers: the constraint model builder *)
(* and exact solver of sudo.py, and the population solvers built on it.    *)
(*                                                                         *)
(* Encoding.  A cell id f"{row}{col}" is the pair <<i, j>> of its 1-based  *)
(* row-label index and its column number (the row label is one letter, so  *)
(* the concatenation is injective).  A digit symbol is a one-character     *)
(* string; a candidate list holds the 1-based indexes of its symbols in    *)
(* `digits`, in list order.  The failure value False of assign, eliminate, *)
(* parse_grid and search is the record field ok = FALSE.                   *)
(***************************************************************************)
EXTENDS Integers, Sequences, FiniteSets, TLC

VARIABLES
    method,      \* what the puzzle is handed to: sudo.solve or the ACOSolver constructor
    size,        \* the board size argument
    grid,        \* the puzzle text: its stripped non-empty lines
    pc,          \* position in solve / parse_grid / search / ACOSolver.__init__
    model,       \* what initialize_structures returned
    grid_dict,   \* what grid_values returned: a sequence of <<cell, char>> items
    values,      \* parse_grid: the candidate lists being built; ACOSolver: self.values
    stack,       \* search: one frame per active call that is inside its for loop
    new_values,  \* search: the copy the last loop pass made, as assign left it
    arg,         \* search: the argument of the call being entered
    ret,         \* search: the value the last finished call returned
    result,      \* what solve returned
    population_size, \* ABCSolver: the constructor argument
    num_ants,    \* ACOSolver: the constructor argument
    self_grid,   \* ABCSolver: self.grid, 0 for a cell without a clue
    population,  \* ABCSolver, HybridABCSolver: self.population
    fitnesses,   \* self.fitnesses, each fitness a fraction <<numerator, denominator>>
    trials,      \* self.trials
    sum_fitness, \* ABCSolver.solve: sum_fitness of the onlooker phase, a fraction
    best_solution, \* self.best_solution
    best_fitness,  \* ABCSolver, HybridABCSolver: self.best_fitness, a fraction
    best_fixed,  \* ACOSolver: self.best_fixed
    cycle,       \* solve: the cycle counter of the for loop
    bee,         \* solve: the index i of the employed or onlooker loop
    left,        \* solve: passes left in the inner onlooker loop of bee i
    yielded,     \* the last pair solve yielded
    neighbor_accepted, \* ABCSolver.solve: what neighbor_fit >= self.fitnesses[i] gave in the last pass
    num_swarms,  \* MSABCSolver: the constructor argument
    msabc_max_cycles, \* MSABCSolver: the constructor argument max_cycles
    swarms,      \* MSABCSolver: self.swarms, a list of ABCSolver objects
    global_best, \* MSABCSolver: self.global_best
    global_fitness, \* MSABCSolver: self.global_fitness, a fraction
    pheromone,   \* ACOSolver: self.pheromone, a row of fractions for every cell
    best_pheromone_to_add \* ACOSolver: self.best_pheromone_to_add, a fraction

\* the state of MSABCSolver
swarmvars == <<num_swarms, msabc_max_cycles, swarms, global_best, global_fitness>>

\* the pheromone state of ACOSolver
acovars == <<pheromone, best_pheromone_to_add>>

\* the state of the population solvers
popvars == <<population_size, num_ants, self_grid, population, fitnesses, trials,
             sum_fitness, best_solution, best_fitness, best_fixed, cycle, bee, left,
             yielded, neighbor_accepted, swarmvars, acovars>>

\* the state of sudo.solve beyond the puzzle and the model
solvevars == <<grid, stack, new_values, arg, ret, result>>

vars == <<method, size, grid, pc, model, grid_dict, values, stack, new_values, arg,
          ret, result, popvars>>

---------------------------------------------------------------------------
(* Bounds of the model *)

\* board sizes 0..MaxSize are passed to initialize_structures
MaxSize == 9
\* the ACOSolver constructor is run on boards of sizes up to MaxACOSize
MaxACOSize == 6
\* sparse puzzles carry at most MaxClues clues, in the first MaxClueCells cells
\* or in the last cell
MaxClues == 3
MaxClueCells == 9
\* sparse puzzles are generated for boards of at most MaxSparseCells cells
MaxSparseCells == 16
\* dense puzzles differ from a solved grid in the first MaxWindow cells only
MaxWindow == 2

---------------------------------------------------------------------------
(* Sequence helpers *)

Range(f) == {f[i] : i \in DOMAIN f}

Contains(list, x) == \E i \in DOMAIN list : list[i] = x

\* list.remove(x) for a list that holds x
Remove(list, x) ==
    LET i == CHOOSE k \in DOMAIN list : list[k] = x /\ \A m \in 1..(k-1) : list[m] # x
    IN  SubSeq(list, 1, i-1) \o SubSeq(list, i+1, Len(list))

RECURSIVE FlattenSeq(_)
FlattenSeq(ss) == IF ss = <<>> THEN <<>> ELSE Head(ss) \o FlattenSeq(Tail(ss))

Min2(a, b) == IF a < b THEN a ELSE b

---------------------------------------------------------------------------
(* sudo.py: the constraint model *)

\* 'ABCDEFGHIJKLMNOPQRSTUVWXYZ'
RowAlphabet == <<"A","B","C","D","E","F","G","H","I","J","K","L","M",
                 "N","O","P","Q","R","S","T","U","V","W","X","Y","Z">>

\* the symbols of '123456789' followed by 'A', 'B', ...
DigitAlphabet == <<"1","2","3","4","5","6","7","8","9">> \o RowAlphabet

\* cross(A, B): [a+b for a in A for b in B]
cross(A, B) == FlattenSeq([a \in DOMAIN A |-> [b \in DOMAIN B |-> <<A[a], B[b]>>]])

\* int(size**0.5)
ISqrt(n) == CHOOSE k \in 0..n : k * k <= n /\ (k + 1) * (k + 1) > n

\* while size % subgrid_rows != 0: subgrid_rows -= 1
RECURSIVE SubgridRowsFrom(_, _)
SubgridRowsFrom(n, k) == IF n % k = 0 THEN k ELSE SubgridRowsFrom(n, k - 1)

SubgridRows(n) == SubgridRowsFrom(n, ISqrt(n))

\* the subgrid loop with the column stride taken from the subgrid height
Subgrids_row_stride(n, rows, cols, sr, sc) ==
    LET nbi == n \div sr
        nbj == n \div sc
        box(bi, bj) == [k \in 1..(sr * sc) |->
                          <<rows[(bi - 1) * sr + ((k - 1) \div sc) + 1],
                            cols[(bj - 1) * sr + ((k - 1) % sc) + 1]>>]
    IN  [b \in 1..(nbi * nbj) |-> box(((b - 1) \div nbj) + 1, ((b - 1) % nbj) + 1)]

\* the subgrid loop of initialize_structures, in its order
Subgrids(n, rows, cols, sr, sc) ==
    LET nbi == n \div sr
        nbj == n \div sc
        box(bi, bj) == [k \in 1..(sr * sc) |->
                          <<rows[(bi - 1) * sr + ((k - 1) \div sc) + 1],
                            cols[(bj - 1) * sc + ((k - 1) % sc) + 1]>>]
    IN  [b \in 1..(nbi * nbj) |-> box(((b - 1) \div nbj) + 1, ((b - 1) % nbj) + 1)]

\* a set of cells as the sequence of its members in the order a loop walks
\* them.  Python leaves the order of a set open; propagation is confluent (an
\* elimination is never undone and every rule stays applicable until applied),
\* so the order decides neither success nor the values of a successful call.
RECURSIVE SortCells(_)
SortCells(S) ==
    IF S = {} THEN <<>>
    ELSE LET m == CHOOSE s \in S : \A t \in S : s[1] < t[1] \/ (s[1] = t[1] /\ s[2] <= t[2])
         IN  <<m>> \o SortCells(S \ {m})

\* initialize_structures(size) for size >= 1
Structures(n) ==
    LET rows == [i \in 1..Min2(n, 26) |-> i]
        cols == [i \in 1..n |-> i]
        squares == cross(rows, cols)
        sr == SubgridRows(n)
        sc == n \div sr
        digits == SubSeq(DigitAlphabet, 1, Min2(n, 9))
                    \o (IF n > 9 THEN SubSeq(RowAlphabet, 1, n - 9) ELSE <<>>)
        unitlist == [c \in 1..n |-> [r \in DOMAIN rows |-> <<rows[r], cols[c]>>]]
                    \o [r \in DOMAIN rows |-> [c \in 1..n |-> <<rows[r], cols[c]>>]]
                    \o Subgrids(n, rows, cols, sr, sc)
        units == [s \in Range(squares) |->
                    SelectSeq(unitlist, LAMBDA u : Contains(u, s))]
        peers == [s \in Range(squares) |->
                    SortCells(UNION {Range(units[s][k]) : k \in DOMAIN units[s]} \ {s})]
    IN  [rows |-> rows, cols |-> cols, squares |-> squares, unitlist |-> unitlist,
         units |-> units, peers |-> peers, subgrid_rows |-> sr, subgrid_cols |-> sc,
         digits |-> digits]

\* initialize_structures: raises ValueError for size < 1
initialize_structures(n) ==
    IF n < 1 THEN [error |-> "ValueError"]
    ELSE [error |-> "none"] @@ Structures(n)

---------------------------------------------------------------------------
(* sudo.py: grid_values *)

\* the characters grid_values keeps: '0123456789ABCDEFGHIJKLMNOPQRSTUVWXYZ.'
DecimalChars == <<"0","1","2","3","4","5","6","7","8","9">>

PuzzleChars == Range(DecimalChars) \cup Range(RowAlphabet) \cup {"."}

\* line.isdigit() for a non-empty line
IsDigit(line) == line # <<>> /\ \A i \in DOMAIN line : line[i] \in Range(DecimalChars)

DecimalValue(ch) == (CHOOSE i \in DOMAIN DecimalChars : DecimalChars[i] = ch) - 1

\* int(line) for a decimal line, held at IntCap when it is IntCap or more (only
\* its equality with a board size is read): the digits before the last three
\* decide whether the value passes 999
IntCap == 1000

IntOf(line) ==
    LET n == Len(line)
        d(i) == IF i < 1 THEN 0 ELSE DecimalValue(line[i])
    IN  IF \E i \in 1..(n - 3) : line[i] # "0" THEN IntCap
        ELSE 100 * d(n - 2) + 10 * d(n - 1) + d(n)

\* grid_values(grid, size) for a string: the lines are those of line 69
grid_values(lines, n, m) ==
    LET body == IF lines # <<>> /\ IsDigit(lines[1]) /\ IntOf(lines[1]) = n
                THEN Tail(lines) ELSE lines
        puzzle_chars == SelectSeq(FlattenSeq(body), LAMBDA c : c \in PuzzleChars)
    IN  IF Len(puzzle_chars) # n * n
        THEN [error |-> "ValueError", items |-> <<>>]
        ELSE [error |-> "none",
              items |-> [k \in 1..(n * n) |->
                           <<m.squares[k],
                             IF puzzle_chars[k] # "0" THEN puzzle_chars[k] ELSE ".">>]]

---------------------------------------------------------------------------
(* sudo.py: assign and eliminate.  Both change `values` in place and return
   it, or return False; the record carries the changed values either way. *)

\* digits.index(d) + 1 for a symbol of digits, 0 for any other symbol
DigitIndex(digits, ch) ==
    IF Contains(digits, ch) THEN CHOOSE i \in DOMAIN digits : digits[i] = ch ELSE 0

RECURSIVE eliminate(_, _, _, _), eliminate_each(_, _, _, _, _, _)

\* for s2 in peers[s]: if not eliminate(values, s2, d2, peers): return False.
\* Cells lo..hi are taken in order, the first half before the second.
eliminate_each(vals, cells, lo, hi, d2, peers) ==
    IF lo > hi THEN [ok |-> TRUE, values |-> vals]
    ELSE IF lo = hi THEN eliminate(vals, cells[lo], d2, peers)
    ELSE LET mid == (lo + hi) \div 2
             r == eliminate_each(vals, cells, lo, mid, d2, peers)
         IN  IF r.ok THEN eliminate_each(r.values, cells, mid + 1, hi, d2, peers) ELSE r

\* eliminate that leaves the peers alone when a cell is down to one digit
eliminate_no_peers(vals, s, d, peers) ==
    IF ~Contains(vals[s], d) THEN [ok |-> TRUE, values |-> vals]
    ELSE LET v1 == [vals EXCEPT ![s] = Remove(@, d)]
         IN  IF Len(v1[s]) = 0 THEN [ok |-> FALSE, values |-> v1]
             ELSE [ok |-> TRUE, values |-> v1]

\* eliminate that does not look for an emptied candidate list
eliminate_no_empty_check(vals, s, d, peers) ==
    IF ~Contains(vals[s], d) THEN [ok |-> TRUE, values |-> vals]
    ELSE LET v1 == [vals EXCEPT ![s] = Remove(@, d)]
         IN  IF Len(v1[s]) = 1
             THEN eliminate_each(v1, peers[s], 1, Len(peers[s]), v1[s][1], peers)
             ELSE [ok |-> TRUE, values |-> v1]

eliminate(vals, s, d, peers) ==
    IF ~Contains(vals[s], d) THEN [ok |-> TRUE, values |-> vals]
    ELSE LET v1 == [vals EXCEPT ![s] = Remove(@, d)]
         IN  IF Len(v1[s]) = 0 THEN [ok |-> FALSE, values |-> v1]
             ELSE IF Len(v1[s]) = 1
                  THEN eliminate_each(v1, peers[s], 1, Len(peers[s]), v1[s][1], peers)
                  ELSE [ok |-> TRUE, values |-> v1]

RECURSIVE assign_each(_, _, _, _, _, _)
\* for d2 in other_values: if not eliminate(values, s, d2, peers): return False
assign_each(vals, s, others, lo, hi, peers) ==
    IF lo > hi THEN [ok |-> TRUE, values |-> vals]
    ELSE IF lo = hi THEN eliminate(vals, s, others[lo], peers)
    ELSE LET mid == (lo + hi) \div 2
             r == assign_each(vals, s, others, lo, mid, peers)
         IN  IF r.ok THEN assign_each(r.values, s, others, mid + 1, hi, peers) ELSE r

\* assign that returns values whatever eliminate returned
assign_unchecked(vals, s, d, peers) ==
    LET other_values == SelectSeq(vals[s], LAMBDA v : v # d)
        r == assign_each(vals, s, other_values, 1, Len(other_values), peers)
    IN  [ok |-> TRUE, values |-> r.values]

assign(vals, s, d, peers) ==
    LET other_values == SelectSeq(vals[s], LAMBDA v : v # d)
    IN  assign_each(vals, s, other_values, 1, Len(other_values), peers)

---------------------------------------------------------------------------
(* sudo.py: parse_grid *)

\* values = {s: digits.copy() for s in squares}
FullValues(m) == [s \in Range(m.squares) |-> [i \in 1..Len(m.digits) |-> i]]

\* the body of the loop of parse_grid for one item
parse_item(vals, it, m) ==
    IF it[2] # "." /\ Contains(m.digits, it[2])
    THEN assign(vals, it[1], DigitIndex(m.digits, it[2]), m.peers)
    ELSE [ok |-> TRUE, values |-> vals]

RECURSIVE parse_range(_, _, _, _, _)
\* for s, d in grid_dict.items(): if d != '.' and d in digits: assign or return
\* False.  Items lo..hi are taken in order, the first half before the second.
parse_range(vals, items, lo, hi, m) ==
    IF lo > hi THEN [ok |-> TRUE, values |-> vals]
    ELSE IF lo = hi THEN parse_item(vals, items[lo], m)
    ELSE LET mid == (lo + hi) \div 2
             r == parse_range(vals, items, lo, mid, m)
         IN  IF r.ok THEN parse_range(r.values, items, mid + 1, hi, m) ELSE r

parse_loop(vals, items, m) == parse_range(vals, items, 1, Len(items), m)

---------------------------------------------------------------------------
(* The puzzles handed to solve *)

\* the decimal line of a size below 100
DecimalLine(n) ==
    IF n < 10 THEN <<DecimalChars[n + 1]>>
    ELSE <<DecimalChars[(n \div 10) + 1], DecimalChars[(n % 10) + 1]>>

\* a solved grid of the size-n board, row by row
BaseDigit(n, k) ==
    LET sr == SubgridRows(n)
        sc == n \div sr
        i == (k - 1) \div n
        j == (k - 1) % n
    IN  (((i % sr) * sc + (i \div sr) + j) % n) + 1

\* sparse puzzles: at most MaxClues clues, in the first MaxClueCells cells or
\* in the last cell; empty cells written as `empty`
SparseLines(n, empty) ==
    IF n * n > MaxSparseCells THEN {}
    ELSE LET D == SubSeq(DigitAlphabet, 1, n)
         IN  UNION {{ [k \in 1..(n * n) |-> IF k \in K THEN D[f[k]] ELSE empty]
                        : f \in [K -> 1..n] }
                    : K \in {K \in SUBSET ((1..Min2(n * n, MaxClueCells)) \cup {n * n}) :
                                 Cardinality(K) <= MaxClues} }

\* symbols written over a clue of a dense puzzle: the first digit (which repeats
\* a clue of the first row), the first symbol beyond the alphabet, and the
\* empty marker 0
OverSyms(n) == {DigitAlphabet[1], DigitAlphabet[n + 1], "0"}

\* dense puzzles: the solved grid with symbols written over cells of the window
DenseLines(n) ==
    LET W == 1..Min2(MaxWindow, n * n)
    IN  { [k \in 1..(n * n) |-> IF k \in DOMAIN o THEN o[k] ELSE DigitAlphabet[BaseDigit(n, k)]]
            : o \in UNION {[K -> OverSyms(n)] : K \in SUBSET W} }

\* the lines of a puzzle text: with or without a size line, of the right length
\* or not, with or without characters that are no puzzle characters
Inputs(n) ==
    IF n < 1 THEN {<<>>}
    ELSE   {<<l>> : l \in SparseLines(n, ".") \cup DenseLines(n)}
      \cup {<<DecimalLine(n), l>> : l \in DenseLines(n)}
      \cup {<<DecimalLine(n + 1), l>> : l \in DenseLines(n)}
      \cup {<<SubSeq(l, 1, Len(l) - 1)>> : l \in DenseLines(n)}
      \cup {<<l \o <<".">> >> : l \in DenseLines(n)}
      \cup {<< <<"|">> \o l \o <<" ", "x">> >> : l \in DenseLines(n)}

---------------------------------------------------------------------------
(* aco_solver.py: the propagation of the ACOSolver constructor.  Like
   sudo.assign and sudo.eliminate it changes `values` in place. *)

RECURSIVE _assign_value(_, _, _, _), _eliminate_value(_, _, _, _)
RECURSIVE _eliminate_peers(_, _, _, _, _, _), _eliminate_units(_, _, _, _, _, _)
RECURSIVE _assign_each(_, _, _, _, _, _)

\* for v in other_values: values = self._eliminate_value(values, s, v) or return False
_assign_each(vals, s, others, lo, hi, m) ==
    IF lo > hi THEN [ok |-> TRUE, values |-> vals]
    ELSE IF lo = hi THEN _eliminate_value(vals, s, others[lo], m)
    ELSE LET mid == (lo + hi) \div 2
             r == _assign_each(vals, s, others, lo, mid, m)
         IN  IF r.ok THEN _assign_each(r.values, s, others, mid + 1, hi, m) ELSE r

_assign_value(vals, s, d, m) ==
    LET other_values == SelectSeq(vals[s], LAMBDA v : v # d)
    IN  _assign_each(vals, s, other_values, 1, Len(other_values), m)

\* lines 54-57: for s2 in self.peers[s], cells lo..hi in order
_eliminate_peers(vals, cells, lo, hi, d2, m) ==
    IF lo > hi THEN [ok |-> TRUE, values |-> vals]
    ELSE IF lo = hi THEN _eliminate_value(vals, cells[lo], d2, m)
    ELSE LET mid == (lo + hi) \div 2
             r == _eliminate_peers(vals, cells, lo, mid, d2, m)
         IN  IF r.ok THEN _eliminate_peers(r.values, cells, mid + 1, hi, d2, m) ELSE r

\* lines 59-66: for u in self.units[s], units lo..hi in order
_eliminate_units(vals, us, lo, hi, d, m) ==
    IF lo > hi THEN [ok |-> TRUE, values |-> vals]
    ELSE IF lo = hi
         THEN LET dplaces == SelectSeq(us[lo], LAMBDA s : Contains(vals[s], d))
              IN  IF Len(dplaces) = 0 THEN [ok |-> FALSE, values |-> vals]
                  ELSE IF Len(dplaces) = 1 THEN _assign_value(vals, dplaces[1], d, m)
                  ELSE [ok |-> TRUE, values |-> vals]
    ELSE LET mid == (lo + hi) \div 2
             r == _eliminate_units(vals, us, lo, mid, d, m)
         IN  IF r.ok THEN _eliminate_units(r.values, us, mid + 1, hi, d, m) ELSE r

_eliminate_value(vals, s, d, m) ==
    IF ~Contains(vals[s], d) THEN [ok |-> TRUE, values |-> vals]
    ELSE LET v1 == [vals EXCEPT ![s] = Remove(@, d)]
         IN  IF Len(v1[s]) = 0 THEN [ok |-> FALSE, values |-> v1]
             ELSE LET r == IF Len(v1[s]) = 1
                           THEN _eliminate_peers(v1, m.peers[s], 1, Len(m.peers[s]), v1[s][1], m)
                           ELSE [ok |-> TRUE, values |-> v1]
                  IN  IF r.ok THEN _eliminate_units(r.values, m.units[s], 1, Len(m.units[s]), d, m)
                      ELSE r

\* the body of the loop of _initialize_values for one item
_initialize_item(vals, it, m) ==
    IF Contains(m.digits, it[2])
    THEN _assign_value(vals, it[1], DigitIndex(m.digits, it[2]), m)
    ELSE [ok |-> TRUE, values |-> vals]

RECURSIVE _initialize_range(_, _, _, _, _)
\* for s, d in grid.items(), items lo..hi in order
_initialize_range(vals, items, lo, hi, m) ==
    IF lo > hi THEN [ok |-> TRUE, values |-> vals]
    ELSE IF lo = hi THEN _initialize_item(vals, items[lo], m)
    ELSE LET mid == (lo + hi) \div 2
             r == _initialize_range(vals, items, lo, mid, m)
         IN  IF r.ok THEN _initialize_range(r.values, items, mid + 1, hi, m) ELSE r

_initialize_values(items, m) == _initialize_range(FullValues(m), items, 1, Len(items), m)

---------------------------------------------------------------------------
(* A puzzle text is turned into a dict by grid_values and handed to sudo.solve
   or to the ACOSolver constructor *)

NoValue == <<>>
False == [ok |-> FALSE]

Methods == {"solve", "ACOSolver"}

\* no population solver has been constructed
PopIdle ==
    /\ population_size = 0 /\ num_ants = 0
    /\ self_grid = NoValue /\ population = NoValue /\ fitnesses = NoValue
    /\ trials = NoValue /\ sum_fitness = NoValue
    /\ best_solution = NoValue /\ best_fitness = NoValue /\ best_fixed = 0
    /\ cycle = 0 /\ bee = 0 /\ left = 0
    /\ yielded = NoValue
    /\ neighbor_accepted = NoValue
    /\ num_swarms = 0 /\ msabc_max_cycles = 0
    /\ swarms = NoValue /\ global_best = NoValue /\ global_fitness = NoValue
    /\ pheromone = NoValue /\ best_pheromone_to_add = <<0, 1>>

Init ==
    /\ method \in Methods
    /\ size \in (-1)..(IF method = "solve" THEN MaxSize ELSE MaxACOSize)
    /\ grid \in Inputs(size)
    /\ pc = "start"
    /\ model = NoValue
    /\ grid_dict = NoValue
    /\ values = NoValue
    /\ stack = <<>>
    /\ new_values = NoValue
    /\ arg = NoValue
    /\ ret = NoValue
    /\ result = NoValue
    /\ PopIdle

\* initialize_structures(size), which raises for size < 1 (parse_grid, line 100;
\* ACOSolver.__init__, line 10); parse_grid then fills values with all digits
InitializeStructures ==
    /\ pc = "start"
    /\ UNCHANGED popvars
    /\ LET m == initialize_structures(size)
       IN  IF m.error # "none"
           THEN /\ pc' = "ValueError"
                /\ UNCHANGED <<model, values>>
           ELSE /\ model' = m
                /\ values' = IF method = "solve" THEN FullValues(m) ELSE NoValue
                /\ pc' = "grid_values"
    /\ UNCHANGED <<method, size, grid, grid_dict, stack, new_values, arg, ret, result>>

\* grid_values(grid, size), which raises for a wrong number of puzzle characters
GridValues ==
    /\ pc = "grid_values"
    /\ UNCHANGED popvars
    /\ LET g == grid_values(grid, size, model)
       IN  IF g.error # "none"
           THEN /\ pc' = "ValueError"
                /\ UNCHANGED grid_dict
           ELSE /\ grid_dict' = g.items
                /\ pc' = "clues"
    /\ UNCHANGED <<method, size, grid, model, values, stack, new_values, arg, ret, result>>

\* parse_grid, lines 105-109, and solve, lines 137-141: the clues are assigned
\* and parse_grid returns; on failure solve returns False, otherwise it calls
\* search(values, size)
ParseGrid ==
    /\ pc = "clues"
    /\ UNCHANGED popvars
    /\ method = "solve"
    /\ LET r == parse_loop(values, grid_dict, model)
       IN  /\ values' = r.values
           /\ IF r.ok
              THEN /\ arg' = [ok |-> TRUE, values |-> r.values]
                   /\ pc' = "search"
                   /\ UNCHANGED result
              ELSE /\ result' = False
                   /\ pc' = "done"
                   /\ UNCHANGED arg
    /\ UNCHANGED <<method, size, grid, model, grid_dict, stack, new_values, ret>>

\* ACOSolver.__init__, lines 17-24: the clues are assigned; on failure the
\* constructor raises ValueError, else it sets up the pheromone matrix
ACOInit ==
    /\ pc = "clues"
    /\ method = "ACOSolver"
    /\ LET r == _initialize_values(grid_dict, model)
       IN  /\ values' = r.values
           /\ pc' = IF r.ok THEN "constructed" ELSE "ValueError"
           /\ pheromone' = IF r.ok THEN [c \in 1..Len(model.squares) |->
                                          [d \in 1..Len(model.digits) |->
                                              <<1, Len(model.squares)>>]]
                           ELSE pheromone
    /\ UNCHANGED <<population_size, num_ants, self_grid, population, fitnesses, trials,
                   sum_fitness, best_solution, best_fitness, best_fixed, cycle, bee,
                   left, yielded, neighbor_accepted, swarmvars, best_pheromone_to_add>>
    /\ UNCHANGED <<method, size, grid, model, grid_dict, stack, new_values, arg, ret,
                   result>>

\* the key of a column label in string order ('1' < '10' < '2')
ColKey(c) == IF c < 10 THEN c * 100 ELSE (c \div 10) * 100 + (c % 10) + 1

\* (len(values[s]), s) < (len(values[t]), t)
PairLess(v, s, t) ==
    \/ Len(v[s]) < Len(v[t])
    \/ /\ Len(v[s]) = Len(v[t])
       /\ \/ s[1] < t[1]
          \/ s[1] = t[1] /\ ColKey(s[2]) < ColKey(t[2])

\* n, s = min((len(values[s]), s) for s in squares if len(values[s]) > 1)
MinSquare(v, squares) ==
    LET open == {s \in Range(squares) : Len(v[s]) > 1}
    IN  CHOOSE s \in open : \A t \in open \ {s} : PairLess(v, s, t)

\* search, lines 161-169: a call is entered
SearchEnter ==
    /\ pc = "search"
    /\ UNCHANGED popvars
    /\ IF ~arg.ok
       THEN /\ ret' = False
            /\ pc' = "return"
            /\ UNCHANGED stack
       ELSE IF \A s \in Range(model.squares) : Len(arg.values[s]) = 1
       THEN /\ ret' = [ok |-> TRUE,
                       solution |-> [s \in Range(model.squares) |-> arg.values[s][1]]]
            /\ pc' = "return"
            /\ UNCHANGED stack
       ELSE /\ stack' = Append(stack, [values |-> arg.values,
                                       s |-> MinSquare(arg.values, model.squares),
                                       k |-> 1])
            /\ pc' = "loop"
            /\ UNCHANGED ret
    /\ UNCHANGED <<method, size, grid, model, grid_dict, values, new_values, arg, result>>

\* a copy that shares its candidate lists with values (values.copy()): what
\* assign removes from the copy is removed from values too
copy_shared_lists(vals, changed) == changed

\* search, line 172: new_values holds a copy of every candidate list of
\* values, so values is as it was whatever assign made of new_values (`changed`)
copy_per_cell(vals, changed) == vals

\* search, lines 171-173 and 176: the next candidate is assigned on a copy and
\* search is called on the outcome; with no candidate left the call returns False
SearchLoop ==
    /\ pc = "loop"
    /\ UNCHANGED popvars
    /\ LET f == stack[Len(stack)]
       IN  IF f.k <= Len(f.values[f.s])
           THEN LET r == assign(f.values, f.s, f.values[f.s][f.k], model.peers)
                IN  /\ new_values' = r.values
                    /\ stack' = [stack EXCEPT
                                   ![Len(stack)].values = copy_per_cell(f.values, r.values)]
                    /\ arg' = IF r.ok THEN [ok |-> TRUE, values |-> r.values] ELSE False
                    /\ pc' = "search"
                    /\ UNCHANGED ret
           ELSE /\ stack' = SubSeq(stack, 1, Len(stack) - 1)
                /\ ret' = False
                /\ pc' = "return"
                /\ UNCHANGED <<arg, new_values>>
    /\ UNCHANGED <<method, size, grid, model, grid_dict, values, result>>

\* search whose loop returns what its first call returned
SearchReturn_first_only ==
    /\ pc = "return"
    /\ UNCHANGED popvars
    /\ stack # <<>>
    /\ stack' = SubSeq(stack, 1, Len(stack) - 1)
    /\ pc' = "return"
    /\ UNCHANGED <<method, size, grid, model, grid_dict, values, new_values, arg, ret,
                   result>>

\* search, lines 173-175: the caller takes the result of the call it made and
\* returns it, or goes on to its next candidate
SearchReturn ==
    /\ pc = "return"
    /\ UNCHANGED popvars
    /\ stack # <<>>
    /\ IF ret.ok
       THEN /\ stack' = SubSeq(stack, 1, Len(stack) - 1)
            /\ pc' = "return"
       ELSE /\ stack' = [stack EXCEPT ![Len(stack)].k = @ + 1]
            /\ pc' = "loop"
    /\ UNCHANGED <<method, size, grid, model, grid_dict, values, new_values, arg, ret,
                   result>>

\* solve, lines 142-157: the outermost search call has returned
SolveReturn ==
    /\ pc = "return"
    /\ UNCHANGED popvars
    /\ stack = <<>>
    /\ result' = IF ret.ok
                 THEN [ok |-> TRUE,
                       solved_dict |-> [s \in DOMAIN ret.solution |-> ret.solution[s]]]
                 ELSE False
    /\ pc' = "done"
    /\ UNCHANGED <<method, size, grid, model, grid_dict, values, stack, new_values, arg,
                   ret>>

Next ==
    \/ InitializeStructures
    \/ GridValues
    \/ ParseGrid
    \/ ACOInit
    \/ SearchEnter
    \/ SearchLoop
    \/ SearchReturn
    \/ SolveReturn

Spec == Init /\ [][Next]_vars

---------------------------------------------------------------------------
(* Properties of sudo.py and of the ACOSolver constructor *)

\* the clue of item k as an index into digits, 0 for a symbol that is no digit
\* of the alphabet ('.', '0' turned into '.', or a symbol beyond the alphabet)
ClueOf(m, it) == DigitIndex(m.digits, it[2])

\* g gives every cell one digit and every unit holds each digit exactly once
\* (a unit has as many cells as there are digits)
ValidGrid(m, g) ==
    /\ DOMAIN g = Range(m.squares)
    /\ \A k \in DOMAIN m.unitlist :
         {g[m.unitlist[k][i]] : i \in DOMAIN m.unitlist[k]} = DOMAIN m.digits

\* g holds the clue digit in every clue cell
KeepsClues(m, items, g) ==
    \A k \in DOMAIN items : ClueOf(m, items[k]) # 0 => g[items[k][1]] = ClueOf(m, items[k])

\* the permutations of 1..n as rows
RowPerms(n) == {p \in [1..n -> 1..n] : \A i, j \in 1..n : i # j => p[i] # p[j]}

\* the grids of k rows in which no two peers hold the same digit
RECURSIVE RowsUpTo(_, _)
RowsUpTo(m, k) ==
    IF k = 0 THEN {<<>>}
    ELSE LET n == Len(m.cols)
         IN  {Append(g, p) : <<g, p>> \in
                 {gp \in RowsUpTo(m, k - 1) \X RowPerms(n) :
                     \A i \in 1..(k - 1) : \A j, j2 \in 1..n :
                        Contains(m.peers[<<k, j>>], <<i, j2>>) => gp[1][i][j2] # gp[2][j]}}

\* the board sizes with at most MaxSparseCells cells, and the valid grids of each
SparseSizes == {n \in 1..MaxSparseCells : n * n <= MaxSparseCells}
SparseGrids == {<<n, RowsUpTo(Structures(n), n)>> : n \in SparseSizes}

\* the puzzle has a complete valid assignment that holds its clues: among all
\* valid grids on a board of at most MaxSparseCells cells, among all fillings
\* of the cells without a clue on a larger board (item k is cell k of squares)
HasCompletion(m, items) ==
    LET n == Len(m.cols)
    IN  IF n \in SparseSizes
        THEN \E rs \in (CHOOSE p \in SparseGrids : p[1] = n)[2] :
                LET g == [s \in Range(m.squares) |-> rs[s[1]][s[2]]]
                IN  ValidGrid(m, g) /\ KeepsClues(m, items, g)
        ELSE LET free == {k \in DOMAIN items : ClueOf(m, items[k]) = 0}
                 clue == [k \in DOMAIN items |-> ClueOf(m, items[k])]
             IN  \E f \in [free -> 1..n] :
                    ValidGrid(m, [s \in Range(m.squares) |->
                                    LET k == (s[1] - 1) * n + s[2]
                                    IN  IF k \in free THEN f[k] ELSE clue[k]])

\* two clue cells of one unit carry the same digit
DuplicateClue(m, items) ==
    \E k1, k2 \in DOMAIN items :
        /\ k1 # k2
        /\ ClueOf(m, items[k1]) # 0
        /\ ClueOf(m, items[k1]) = ClueOf(m, items[k2])
        /\ Contains(m.peers[items[k1][1]], items[k2][1])

\* a cell carries a symbol that is neither the empty marker nor a digit of the
\* alphabet of the board
OutOfAlphabet(m, items) ==
    \E k \in DOMAIN items : items[k][2] # "." /\ ~Contains(m.digits, items[k][2])

\* the number of puzzle characters of the text, a size line counted as grid_values
\* counts it
PuzzleCharCount(lines, n) ==
    LET body == IF lines # <<>> /\ IsDigit(lines[1]) /\ IntOf(lines[1]) = n
                THEN Tail(lines) ELSE lines
    IN  Len(SelectSeq(FlattenSeq(body), LAMBDA c : c \in PuzzleChars))

\* n is a prime: its only factorization into subgrid height and width is 1 x n
IsPrime(n) == n > 1 /\ \A k \in 2..(n - 1) : n % k # 0

\* every candidate list of an assignment holds a digit
NoEmptyList(v) == \A s \in DOMAIN v : v[s] # <<>>

\* search has been entered
SearchRan == pc \in {"search", "loop", "return"} \/ arg # NoValue \/ ret # NoValue

\* C1: whenever sudo.solve returns a solution, the mapping gives exactly one
\* digit to each of the N*N cells, every column, row and subgrid holds each
\* digit of the alphabet exactly once, and every clue cell holds its clue digit
C1_SolutionValid ==
    (method = "solve" /\ pc = "done" /\ result.ok) =>
        /\ Cardinality(DOMAIN result.solved_dict) = size * size
        /\ ValidGrid(model, result.solved_dict)
        /\ KeepsClues(model, grid_dict, result.solved_dict)

\* a solution was returned for a puzzle with a clue, after search tried a digit
C1_Witness ==
    /\ method = "solve" /\ pc = "done" /\ result.ok
    /\ size > 1
    /\ new_values # NoValue
    /\ \E k \in DOMAIN grid_dict : ClueOf(model, grid_dict[k]) # 0

\* C2: sudo.solve returns False only when the puzzle has no complete valid
\* assignment that holds its clues; a puzzle that has one gets a solution,
\* search going on to the next digit of a cell when one fails
C2_FalseOnlyWhenUnsolvable ==
    (method = "solve" /\ pc = "done" /\ result = False) => ~HasCompletion(model, grid_dict)

\* search tried every digit of its first cell and returned False
C2_Witness ==
    /\ method = "solve" /\ pc = "done" /\ result = False
    /\ ret = False /\ new_values # NoValue
    /\ ~HasCompletion(model, grid_dict)

\* C4: a puzzle with the same digit in two clue cells of one unit never reaches
\* search: parse_grid returns False and so does solve; the ACOSolver
\* constructor raises
C4_DuplicateClueRejected ==
    (grid_dict # NoValue /\ DuplicateClue(model, grid_dict)) =>
        /\ ~SearchRan
        /\ pc \in {"clues", "done", "ValueError"}
        /\ pc = "done" => method = "solve" /\ result = False
        /\ pc = "ValueError" => method = "ACOSolver"

\* solve returned False for a puzzle with a duplicate clue
C4_Witness ==
    /\ grid_dict # NoValue /\ DuplicateClue(model, grid_dict)
    /\ method = "solve" /\ pc = "done" /\ result = False

\* the ACOSolver constructor raised for a puzzle with a duplicate clue
C4_WitnessACO ==
    /\ grid_dict # NoValue /\ DuplicateClue(model, grid_dict)
    /\ method = "ACOSolver" /\ pc = "ValueError"

\* C5: malformed input is an error before solving: a text whose number of
\* puzzle characters differs from N*N is rejected by grid_values, and a puzzle
\* with a clue symbol outside the alphabet is rejected by grid_values or
\* parse_grid instead of being read as an empty cell
C5_MalformedRejected ==
    /\ (model # NoValue /\ PuzzleCharCount(grid, size) # size * size) =>
            pc \in {"grid_values", "ValueError"}
    /\ (grid_dict # NoValue /\ OutOfAlphabet(model, grid_dict)) =>
            /\ ~SearchRan
            /\ pc = "done" => result = False


\* C6: for every size N that initialize_structures accepts, with subgrids of
\* r x c cells: N*N distinct cells, 3N units (N columns, N rows, N subgrids),
\* N distinct cells in every unit, the subgrids partition the cells, every
\* cell is in exactly 3 units and has exactly 3N - r - c - 1 distinct peers,
\* itself not among them
C6_ModelShape ==
    model # NoValue =>
        LET n == size
            cells == Range(model.squares)
            boxes == SubSeq(model.unitlist, 2 * n + 1, 3 * n)
        IN  /\ model.subgrid_rows * model.subgrid_cols = n
            /\ Len(model.squares) = n * n /\ Cardinality(cells) = n * n
            /\ Len(model.unitlist) = 3 * n
            /\ \A k \in DOMAIN model.unitlist :
                 /\ Len(model.unitlist[k]) = n
                 /\ Cardinality(Range(model.unitlist[k])) = n
            /\ UNION {Range(boxes[b]) : b \in DOMAIN boxes} = cells
            /\ \A b1, b2 \in DOMAIN boxes :
                 b1 # b2 => Range(boxes[b1]) \cap Range(boxes[b2]) = {}
            /\ \A s \in cells :
                 /\ Len(model.units[s]) = 3
                 /\ Len(model.peers[s]) = 3 * n - model.subgrid_rows - model.subgrid_cols - 1
                 /\ Cardinality(Range(model.peers[s])) = Len(model.peers[s])
                 /\ ~Contains(model.peers[s], s)

\* the 9 x 9 board was built: 27 units and 20 peers
C6_Witness ==
    /\ model # NoValue /\ size = 9
    /\ Len(model.unitlist) = 27
    /\ Len(model.peers[<<1, 1>>]) = 20

\* the 6 x 6 board was built: 18 units of 2 x 3 subgrids
C6_Witness6 ==
    /\ model # NoValue /\ size = 6
    /\ Len(model.unitlist) = 18
    /\ model.subgrid_rows = 2 /\ model.subgrid_cols = 3

\* C7: initialize_structures(N) fails for every N < 1 and for every N without
\* a square-ish factorization, such as a prime N; it returns a model only for
\* an N that has one
C7_PrimeSizeRejected ==
    (pc # "start" /\ (size < 1 \/ IsPrime(size))) => (model = NoValue /\ pc = "ValueError")

\* C8: an assignment that assign, eliminate or parse_grid returns instead of
\* False has no empty candidate list; once an elimination empties a list, at
\* any depth, the outermost call returns False
C8_NoEmptyCandidates ==
    /\ (method = "solve" /\ pc \in {"search", "loop", "return", "done"}) =>
          /\ (arg # NoValue /\ arg # False) => NoEmptyList(arg.values)
          /\ ~NoEmptyList(values) => (pc = "done" /\ result = False /\ arg = NoValue)
          /\ NoEmptyList(values) => arg # NoValue
    /\ new_values # NoValue => (NoEmptyList(new_values) <=> arg # False)

\* assign emptied a candidate list inside search and returned False
C8_Witness ==
    /\ method = "solve" /\ pc = "search"
    /\ new_values # NoValue /\ ~NoEmptyList(new_values)
    /\ arg = False

\* parse_grid emptied a candidate list and returned False
C8_WitnessParse ==
    /\ method = "solve" /\ pc = "done"
    /\ ~NoEmptyList(values) /\ result = False

---------------------------------------------------------------------------
(* The population solvers.  Each is constructed from the dict of a puzzle
   (what grid_values returns) and its solve() is a generator. *)

\* boards of sizes 1..MaxPopSize are handed to the population solvers
MaxPopSize == 4
\* the puzzles of ABCSolver and HybridABCSolver lack at most MaxBlanks clues
MaxBlanks == 3
\* the puzzles of ACOSolver lack at most MaxACOBlanks clues
MaxACOBlanks == 14
\* ABCSolver is constructed with a population_size of at most MaxPopulation
MaxPopulation == 2
\* ACOSolver is constructed with at most MaxAnts ants
MaxAnts == 2
\* more than one ant walks on puzzles that lack at most MaxCrowdBlanks clues
MaxCrowdBlanks == 13
\* the cycles of ABCSolver.solve are followed up to MaxCycles
MaxCycles == 12

\* a grid whose rows and columns hold every digit once and whose subgrids do
\* not, row by row (for a board with subgrids of more than one row)
LatinDigit(n, k) == ((((k - 1) \div n) + ((k - 1) % n)) % n) + 1

\* the dict of the grid that holds digit digit_of[k] in cell k, the cells of
\* `blank` left empty
PuzzleDict(m, digit_of, blank) ==
    [k \in 1..Len(m.squares) |->
        <<m.squares[k], IF m.squares[k] \in blank THEN "." ELSE m.digits[digit_of[k]]>>]

\* the first k cells of the cell sequence cells
FirstCells(cells, k) == {cells[i] : i \in 1..Min2(k, Len(cells))}

\* dense puzzles: a solved grid, or a grid with repeats in its subgrids, that
\* lacks the first k cells of its first subgrid
DensePuzzles(n) ==
    LET m == Structures(n)
        box == m.unitlist[2 * n + 1]
        base == [i \in 1..(n * n) |-> BaseDigit(n, i)]
        latin == [i \in 1..(n * n) |-> LatinDigit(n, i)]
    IN  UNION {{PuzzleDict(m, base, FirstCells(box, k)),
                PuzzleDict(m, latin, FirstCells(box, k))}
               : k \in 0..Min2(MaxBlanks, n)}

\* sparse puzzles: a solved grid that keeps its first cells only
KeptPuzzles(n) ==
    LET m == Structures(n)
        base == [i \in 1..(n * n) |-> BaseDigit(n, i)]
    IN  {PuzzleDict(m, base, {m.squares[i] : i \in (n * n - k + 1)..(n * n)})
           : k \in 0..Min2(MaxACOBlanks, n * n)}

---------------------------------------------------------------------------
(* abc_solver.py *)

\* 100000 cycles, and a member is replaced after more than 10 failed trials
max_cycles == 100000
scout_limit == 10

\* fractions <<numerator, denominator>> with positive denominators
FracLeq(a, b) == a[1] * b[2] <= b[1] * a[2]
FracAdd(a, b) == <<a[1] * b[2] + b[1] * a[2], a[2] * b[2]>>

RECURSIVE SumFrac(_)
SumFrac(fs) == IF fs = <<>> THEN <<0, 1>> ELSE FracAdd(Head(fs), SumFrac(Tail(fs)))

RECURSIVE SumSeq(_)
SumSeq(xs) == IF xs = <<>> THEN 0 ELSE Head(xs) + SumSeq(Tail(xs))

\* ABCSolver.parse_input for a dict: the 1-based index of a clue digit, 0 for
\* any other symbol
parse_input(items, m) ==
    [s \in Range(m.squares) |->
        LET k == CHOOSE k \in DOMAIN items : items[k][1] = s
        IN  DigitIndex(m.digits, items[k][2])]

\* the cells of the subgrid of cell s (block_row, block_col), row by row
Block(m, s) ==
    LET sr == m.subgrid_rows
        sc == m.subgrid_cols
        block_row == ((s[1] - 1) \div sr) * sr
        block_col == ((s[2] - 1) \div sc) * sc
    IN  [k \in 1..(sr * sc) |->
            <<block_row + ((k - 1) \div sc) + 1, block_col + ((k - 1) % sc) + 1>>]

\* the grids one pass of the loop of initialize_population can build: every
\* free cell of a subgrid gets its own digit among those no fixed cell of the
\* subgrid holds (a prefix of the shuffled missing list)
InitSolutions(m, g) ==
    LET n == Len(m.cols)
        free == {s \in DOMAIN g : g[s] = 0}
        existing(s) == {g[t] : t \in {t \in Range(Block(m, s)) : g[t] # 0}}
        fills == {f \in [free -> 1..n] :
                    \A s \in free :
                       /\ f[s] \notin existing(s)
                       /\ \A t \in free \cap Range(Block(m, s)) : t # s => f[t] # f[s]}
    IN  {[s \in DOMAIN g |-> IF s \in free THEN f[s] ELSE g[s]] : f \in fills}

\* ABCSolver.evaluate: 1 / (1 + penalty)
evaluate(m, solution) ==
    LET n == Len(m.cols)
        rows == [r \in 1..n |-> n - Cardinality({solution[<<r, c>>] : c \in 1..n})]
        cols == [c \in 1..n |-> n - Cardinality({solution[<<r, c>>] : r \in 1..n})]
    IN  <<1, 1 + SumSeq(rows) + SumSeq(cols)>>

\* neighbor_search that writes v_ij without swapping inside the subgrid
neighbor_no_swap(m, g, current_solution, s, v0) ==
    LET n == Len(m.cols)
        v_ij == IF v0 > n THEN (v0 % n) + 1
                ELSE IF v0 < 1 THEN n - ((0 - v0) % n) ELSE v0
    IN  [current_solution EXCEPT ![s] = v_ij]

\* neighbor_search, lines 86-111, for the cell s it drew and the rounded value
\* v0 of x_ij + random() * |x_ij - x_kj|
neighbor_search(m, g, current_solution, s, v0) ==
    LET n == Len(m.cols)
        x_ij == current_solution[s]
        v_ij == IF v0 > n THEN (v0 % n) + 1
                ELSE IF v0 < 1 THEN n - ((0 - v0) % n) ELSE v0
        positions == SelectSeq(Block(m, s), LAMBDA t : current_solution[t] = v_ij)
        free == SelectSeq(positions, LAMBDA t : g[t] = 0)
    IN  IF positions # <<>>
        THEN IF free # <<>>
             THEN [current_solution EXCEPT ![free[1]] = x_ij, ![s] = v_ij]
             ELSE current_solution
        ELSE [current_solution EXCEPT ![s] = v_ij]

Abs(x) == IF x < 0 THEN 0 - x ELSE x

\* the first index of the largest fraction of a list: max(list, key) and
\* list.index(max(list))
FirstMax(fs) ==
    CHOOSE i \in DOMAIN fs :
        /\ \A j \in DOMAIN fs : FracLeq(fs[j], fs[i])
        /\ \A j \in 1..(i - 1) : ~FracLeq(fs[i], fs[j])

\* neighbor_search never returns: no cell is free (lines 73-77), or no member
\* of the population differs from the current one (lines 83-84)
NeighborHangs(i) ==
    \/ \A s \in DOMAIN self_grid : self_grid[s] # 0
    \/ \A k \in DOMAIN population : population[k] = population[i]

\* the grids neighbor_search(self.population[i]) can return
Neighbors(i) ==
    LET cur == population[i]
        free == {s \in DOMAIN self_grid : self_grid[s] = 0}
        others == {k \in DOMAIN population : population[k] # cur}
    IN  UNION {{neighbor_search(model, self_grid, cur, sk[1], v0)
                  : v0 \in cur[sk[1]]..(cur[sk[1]] + Abs(cur[sk[1]] - population[sk[2]][sk[1]]))}
               : sk \in free \X others}

\* the best pair that follows a neighbour whatever its fitness
update_best_always(solution, fitness, neighbor, neighbor_fit) ==
    <<neighbor, neighbor_fit>>

\* lines 131-133, 149-151, 160-162: the best pair after a candidate
update_best(solution, fitness, neighbor, neighbor_fit) ==
    IF FracLeq(fitness, neighbor_fit) THEN <<neighbor, neighbor_fit>>
    ELSE <<solution, fitness>>

\* int(probability * self.onlooker_bees) for the fitness f of a member: the
\* floor of the exact quotient; when the exact quotient is a whole number the
\* floating-point product may fall just below it
OnlookerPasses(f, total) ==
    LET onlooker_bees == population_size * 2
        num == f[1] * total[2] * onlooker_bees
        den == f[2] * total[1]
        q == num \div den
    IN  IF num % den = 0 /\ q > 0 THEN {q - 1, q} ELSE {q}

PopMethods == {"ABCSolver", "HybridABCSolver", "ACOSolver", "MSABCSolver"}

\* MSABCSolver is constructed with at most MaxSwarms swarms
MaxSwarms == 2
\* the default of the max_cycles argument of MSABCSolver
msabc_default_cycles == 10000

\* a solver is about to be constructed from the dict of a puzzle
InitPop ==
    /\ method \in PopMethods
    /\ size \in 1..MaxPopSize
    /\ grid_dict \in IF method \in {"ACOSolver", "HybridABCSolver"}
                     THEN KeptPuzzles(size) \cup DensePuzzles(size)
                     ELSE DensePuzzles(size)
    /\ population_size \in IF method \in {"ABCSolver", "MSABCSolver"}
                           THEN 1..MaxPopulation ELSE {0}
    /\ num_swarms \in IF method = "MSABCSolver" THEN 0..MaxSwarms ELSE {0}
    /\ msabc_max_cycles \in IF method = "MSABCSolver" THEN {0, msabc_default_cycles}
                            ELSE {0}
    /\ num_ants \in IF method = "ACOSolver" THEN 1..MaxAnts ELSE {0}
    /\ num_ants > 1 =>
          Cardinality({k \in DOMAIN grid_dict : grid_dict[k][2] = "."}) <= MaxCrowdBlanks
    /\ pc = "new"
    /\ model = NoValue /\ values = NoValue
    /\ grid = NoValue /\ stack = <<>> /\ new_values = NoValue
    /\ arg = NoValue /\ ret = NoValue /\ result = NoValue
    /\ self_grid = NoValue /\ population = NoValue /\ fitnesses = NoValue
    /\ trials = NoValue /\ sum_fitness = NoValue
    /\ best_solution = NoValue /\ best_fitness = NoValue /\ best_fixed = 0
    /\ cycle = 0 /\ bee = 0 /\ left = 0
    /\ yielded = NoValue
    /\ neighbor_accepted = NoValue
    /\ swarms = NoValue /\ global_best = NoValue /\ global_fitness = NoValue
    /\ pheromone = NoValue /\ best_pheromone_to_add = <<0, 1>>

\* ABCSolver.__init__
ABCConstruct ==
    /\ pc = "new"
    /\ method = "ABCSolver"
    /\ LET m == initialize_structures(size)
           g == parse_input(grid_dict, m)
       IN  /\ model' = m
           /\ self_grid' = g
           /\ \E pop \in [1..population_size -> InitSolutions(m, g)] :
                LET fits == [i \in 1..population_size |-> evaluate(m, pop[i])]
                IN  /\ population' = pop
                    /\ fitnesses' = fits
                    /\ best_solution' = pop[FirstMax(fits)]
                    /\ best_fitness' = fits[FirstMax(fits)]
    /\ trials' = [i \in 1..population_size |-> 0]
    /\ pc' = "cycle"
    /\ UNCHANGED <<neighbor_accepted, swarmvars, acovars>>
    /\ UNCHANGED <<method, size, grid_dict, values, solvevars, population_size, num_ants,
                   sum_fitness, best_fixed, cycle, bee, left, yielded>>

\* solve, lines 114-117: the head of the for loop
ABCCycle ==
    /\ pc = "cycle"
    /\ method = "ABCSolver"
    /\ cycle < MaxCycles
    /\ IF cycle >= max_cycles
       THEN /\ pc' = "exhausted"
            /\ UNCHANGED <<bee, yielded>>
       ELSE IF best_fitness[1] = best_fitness[2]
       THEN /\ yielded' = [solution |-> best_solution, score |-> <<1, 1>>]
            /\ pc' = "returned"
            /\ UNCHANGED bee
       ELSE /\ pc' = "employed"
            /\ bee' = 1
            /\ UNCHANGED yielded
    /\ UNCHANGED <<neighbor_accepted, swarmvars, acovars>>
    /\ UNCHANGED <<method, size, model, grid_dict, values, solvevars, population_size,
                   num_ants, self_grid, population, fitnesses, trials, sum_fitness,
                   best_solution, best_fitness, best_fixed, cycle, left>>

\* solve, lines 120-133: employed bee i
ABCEmployed ==
    /\ pc = "employed"
    /\ IF NeighborHangs(bee)
       THEN /\ pc' = "hang"
            /\ UNCHANGED <<population, fitnesses, trials, best_solution, best_fitness,
                           bee, sum_fitness, neighbor_accepted>>
       ELSE \E neighbor \in Neighbors(bee) :
              LET neighbor_fit == evaluate(model, neighbor)
                  accepted == FracLeq(fitnesses[bee], neighbor_fit)
                  best == update_best(best_solution, best_fitness, neighbor, neighbor_fit)
                  fits == IF accepted THEN [fitnesses EXCEPT ![bee] = neighbor_fit]
                          ELSE fitnesses
              IN  /\ population' = IF accepted THEN [population EXCEPT ![bee] = neighbor]
                                   ELSE population
                  /\ fitnesses' = fits
                  /\ trials' = [trials EXCEPT ![bee] = IF accepted THEN 0 ELSE @ + 1]
                  /\ neighbor_accepted' = accepted
                  /\ best_solution' = best[1]
                  /\ best_fitness' = best[2]
                  /\ IF bee < population_size
                     THEN /\ bee' = bee + 1
                          /\ UNCHANGED <<pc, sum_fitness>>
                     ELSE /\ pc' = "onlooker"
                          /\ bee' = 0
                          /\ sum_fitness' = SumFrac(fits)
    /\ UNCHANGED <<swarmvars, acovars>>
    /\ UNCHANGED <<method, size, model, grid_dict, values, solvevars, population_size,
                   num_ants, self_grid, best_fixed, cycle, left, yielded>>

\* solve, lines 137-140: the onlooker loop goes on to its next bee, or ends
ABCOnlookerNext ==
    /\ pc = "onlooker"
    /\ left = 0
    /\ IF sum_fitness[1] > 0 /\ bee < population_size
       THEN /\ bee' = bee + 1
            /\ left' \in OnlookerPasses(fitnesses[bee + 1], sum_fitness)
            /\ UNCHANGED pc
       ELSE /\ pc' = "scout"
            /\ UNCHANGED <<bee, left>>
    /\ neighbor_accepted' = NoValue
    /\ UNCHANGED <<swarmvars, acovars>>
    /\ UNCHANGED <<method, size, model, grid_dict, values, solvevars, population_size,
                   num_ants, self_grid, population, fitnesses, trials, sum_fitness,
                   best_solution, best_fitness, best_fixed, cycle, yielded>>

\* solve, lines 141-151: one pass of the inner onlooker loop of bee i
ABCOnlooker ==
    /\ pc = "onlooker"
    /\ left > 0
    /\ IF NeighborHangs(bee)
       THEN /\ pc' = "hang"
            /\ UNCHANGED <<population, fitnesses, trials, best_solution, best_fitness,
                           left, neighbor_accepted>>
       ELSE \E neighbor \in Neighbors(bee) :
              LET neighbor_fit == evaluate(model, neighbor)
                  accepted == FracLeq(fitnesses[bee], neighbor_fit)
                  best == update_best(best_solution, best_fitness, neighbor, neighbor_fit)
              IN  /\ population' = IF accepted THEN [population EXCEPT ![bee] = neighbor]
                                   ELSE population
                  /\ fitnesses' = IF accepted THEN [fitnesses EXCEPT ![bee] = neighbor_fit]
                                  ELSE fitnesses
                  /\ trials' = IF accepted THEN [trials EXCEPT ![bee] = 0] ELSE trials
                  /\ neighbor_accepted' = accepted
                  /\ best_solution' = best[1]
                  /\ best_fitness' = best[2]
                  /\ left' = left - 1
                  /\ UNCHANGED pc
    /\ UNCHANGED <<swarmvars, acovars>>
    /\ UNCHANGED <<method, size, model, grid_dict, values, solvevars, population_size,
                   num_ants, self_grid, sum_fitness, best_fixed, cycle, bee, yielded>>

\* the largest entry of a list of numbers and its first index
MaxOf(xs) == CHOOSE x \in Range(xs) : \A y \in Range(xs) : y <= x
IndexOf(xs, x) == CHOOSE i \in DOMAIN xs : xs[i] = x /\ \A j \in 1..(i - 1) : xs[j] # x

\* solve, lines 154-164: the scout phase and the yield that ends the cycle
ABCScout ==
    /\ pc = "scout"
    /\ IF MaxOf(trials) > scout_limit
       THEN LET idx == IndexOf(trials, MaxOf(trials))
            IN  \E scout \in InitSolutions(model, self_grid) :
                  LET fit == evaluate(model, scout)
                      best == update_best(best_solution, best_fitness, scout, fit)
                  IN  /\ population' = [population EXCEPT ![idx] = scout]
                      /\ fitnesses' = [fitnesses EXCEPT ![idx] = fit]
                      /\ trials' = [trials EXCEPT ![idx] = 0]
                      /\ best_solution' = best[1]
                      /\ best_fitness' = best[2]
       ELSE UNCHANGED <<population, fitnesses, trials, best_solution, best_fitness>>
    /\ yielded' = [solution |-> best_solution', score |-> best_fitness']
    /\ cycle' = cycle + 1
    /\ neighbor_accepted' = NoValue
    /\ pc' = "cycle"
    /\ UNCHANGED <<swarmvars, acovars>>
    /\ UNCHANGED <<method, size, model, grid_dict, values, solvevars, population_size,
                   num_ants, self_grid, sum_fitness, best_fixed, bee, left>>

---------------------------------------------------------------------------
(* hybrid_abc_cp.py.  It imports assign from sudo, whose parameters are
   (values, s, d, peers), and calls it with six arguments in dict_to_values
   (line 30) and create_cp_solution (line 39): each such call raises TypeError. *)

\* self.employed_bees = 10; solve stops at a best fitness of 0.999
hybrid_employed_bees == 10
hybrid_threshold == <<999, 1000>>

\* the division by size**2 - 1 instead of size**2
hybrid_evaluate_off_by_one(m, vals) ==
    LET fixed == Cardinality({s \in DOMAIN vals : Len(vals[s]) = 1})
        cells == Len(m.cols) * Len(m.cols)
    IN  IF fixed = cells THEN <<1, 1>> ELSE <<fixed, cells - 1>>

\* HybridABCSolver.evaluate: the share of cells with one candidate
hybrid_evaluate(m, vals) ==
    LET fixed == Cardinality({s \in DOMAIN vals : Len(vals[s]) = 1})
        cells == Len(m.cols) * Len(m.cols)
    IN  IF fixed = cells THEN <<1, 1>> ELSE <<fixed, cells>>

\* HybridABCSolver.__init__: dict_to_values calls assign for every clue that
\* is a digit (self.puzzle is not set then), create_cp_solution for the first
\* cell with candidates left (self.puzzle is set, the population is not)
HybridConstruct ==
    /\ pc = "new"
    /\ method = "HybridABCSolver"
    /\ LET m == initialize_structures(size)
           puzzle == FullValues(m)
           pop == [i \in 1..hybrid_employed_bees |-> puzzle]
           fits == [i \in 1..hybrid_employed_bees |-> hybrid_evaluate(m, pop[i])]
       IN  /\ model' = m
           /\ IF \E k \in DOMAIN grid_dict : Contains(m.digits, grid_dict[k][2])
              THEN /\ pc' = "TypeError"
                   /\ UNCHANGED <<values, population, fitnesses, best_solution,
                                  best_fitness, trials>>
              ELSE IF \E s \in DOMAIN puzzle : Len(puzzle[s]) # 1
              THEN /\ values' = puzzle
                   /\ pc' = "TypeError"
                   /\ UNCHANGED <<population, fitnesses, best_solution, best_fitness,
                                  trials>>
              ELSE /\ values' = puzzle
                   /\ population' = pop
                   /\ fitnesses' = fits
                   /\ best_solution' = pop[FirstMax(fits)]
                   /\ best_fitness' = fits[FirstMax(fits)]
                   /\ trials' = [i \in 1..hybrid_employed_bees |-> 0]
                   /\ pc' = "cycle"
    /\ UNCHANGED <<neighbor_accepted, swarmvars, acovars>>
    /\ UNCHANGED <<method, size, grid_dict, solvevars, population_size, num_ants,
                   self_grid, sum_fitness, best_fixed, cycle, bee, left, yielded>>

\* how HybridABCSolver.neighbor_search(current_solution), lines 51-63, ends.
\* The loop of lines 53-56 draws a cell until it finds one that is not fixed
\* and has more than one candidate.  Line 59 then calls assign with self.size
\* as its peers argument: assign removes the other candidates of the cell one
\* by one, and when one candidate is left eliminate (sudo.py, line 130)
\* subscripts the integer and raises TypeError.  No call returns.
hybrid_neighbor_search(m, fixed_cells, current_solution) ==
    IF \A s \in Range(m.squares) : s \in fixed_cells \/ Len(current_solution[s]) <= 1
    THEN "hang"
    ELSE "TypeError"

\* HybridABCSolver.solve, lines 72-75: the head of the for loop.  A solver
\* that was constructed has one candidate in every cell, so its best fitness
\* is 1.0 and the first pass yields and returns
HybridCycle ==
    /\ pc = "cycle"
    /\ method = "HybridABCSolver"
    /\ IF FracLeq(hybrid_threshold, best_fitness)
       THEN /\ yielded' = [solution |-> best_solution, score |-> <<1, 1>>]
            /\ pc' = "returned"
       ELSE /\ pc' = "hybrid_employed"
            /\ UNCHANGED yielded
    /\ UNCHANGED <<neighbor_accepted, swarmvars, acovars>>
    /\ UNCHANGED <<method, size, model, grid_dict, values, solvevars, population_size,
                   num_ants, self_grid, population, fitnesses, trials, sum_fitness,
                   best_solution, best_fitness, best_fixed, cycle, bee, left>>

---------------------------------------------------------------------------
(* aco_solver.py: solve.  The pheromone matrix gives every candidate of a
   cell a positive weight, so _choose_value can return any of them.  The
   pheromone levels are kept as exact fractions in lowest terms. *)

\* the default evaporation_rate and bve_rate of the constructor, and xi of
\* _local_pheromone_update
evaporation_rate == <<1, 2>>
bve_rate == <<1, 10>>
xi == <<1, 10>>

RECURSIVE GCD(_, _)
GCD(a, b) == IF b = 0 THEN a ELSE GCD(b, a % b)

\* the fraction f in lowest terms
FracNorm(f) == LET g == GCD(Abs(f[1]), f[2]) IN <<f[1] \div g, f[2] \div g>>
FracMul(a, b) == FracNorm(<<a[1] * b[1], a[2] * b[2]>>)
\* 1 - f
FracCompl(f) == <<f[2] - f[1], f[2]>>

\* tau0 = 1.0 / (self.size**2)
tau0(m) == <<1, Len(m.squares)>>

\* np.ones((size**2, size)) * (1.0 / size**2)
initial_pheromone(m) ==
    [c \in 1..Len(m.squares) |-> [d \in 1..Len(m.digits) |-> tau0(m)]]

\* what k runs of _local_pheromone_update make of the level p of one entry:
\* (1 - xi) * p + xi * tau0, k times
RECURSIVE _local_pheromone_update(_, _, _)
_local_pheromone_update(p, k, m) ==
    IF k = 0 THEN p
    ELSE _local_pheromone_update(
             FracNorm(FracAdd(FracMul(FracCompl(xi), p), FracMul(xi, tau0(m)))),
             k - 1, m)

\* what 0..n runs of _local_pheromone_update make of each level of the matrix
LocalUpdateTable(ph, n, m) ==
    [p \in UNION {Range(ph[c]) : c \in DOMAIN ph} |->
        [k \in 0..n |-> _local_pheromone_update(p, k, m)]]

\* the matrix after the local updates of a cycle: every ant updates the
\* entry of each (cell, digit) it chose, line 96; `table` holds the outcome
\* of the updates for every level
LocalUpdates(ph, ants, table) ==
    LET chosen == UNION {ants[i].solution : i \in DOMAIN ants}
        cells == {p[1] : p \in chosen}
    IN  [c \in DOMAIN ph |->
            IF c \notin cells THEN ph[c]
            ELSE [d \in DOMAIN ph[c] |->
                    IF <<c, d>> \notin chosen THEN ph[c][d]
                    ELSE table[ph[c][d]][
                             Cardinality({i \in DOMAIN ants : <<c, d>> \in ants[i].solution})]]]

\* delta_tau of line 112 for a best count of `fixed` cells
delta_tau(fixed, m) ==
    LET cells == Len(m.squares)
    IN  FracNorm(<<cells * 1000000, (cells - fixed) * 1000000 + 1>>)

\* _global_pheromone_update, lines 147-157: it returns at once without a best
\* solution or bonus; else it walks the cells, and at the first cell of the
\* best solution with one candidate line 153 looks up the candidate list in
\* self.digits, a list of strings, and raises ValueError before any entry is
\* written.  No run writes an entry.
_global_pheromone_update(ph, best, bonus, m) ==
    IF best = NoValue \/ bonus[1] <= 0
    THEN [ok |-> TRUE, pheromone |-> ph]
    ELSE IF \E c \in DOMAIN m.squares : Len(best[m.squares[c]]) = 1
    THEN [ok |-> FALSE, pheromone |-> ph]
    ELSE [ok |-> TRUE, pheromone |-> ph]

\* what the walk of one ant over all cells can end in, from cell number ci
\* with `steps` cells visited and the choices `sol` made (ant['solution'], as
\* pairs of cell number and digit number): the ant is marked invalid (line 91),
\* or it ends valid with its values and its count of cells with one candidate
RECURSIVE AntWalk(_, _, _, _, _)
AntWalk(vals, ci, steps, sol, m) ==
    LET cells == Len(m.squares)
        s == m.squares[ci]
        next == (ci % cells) + 1
    IN  IF steps = cells
        THEN {[valid |-> TRUE, values |-> vals, solution |-> sol,
               fixed |-> Cardinality({c \in DOMAIN vals : Len(vals[c]) = 1})]}
        ELSE IF Len(vals[s]) > 1
        THEN UNION {LET r == _assign_value(vals, s, vals[s][i], m)
                        chosen == <<ci, vals[s][i]>>
                    IN  IF r.ok
                        THEN AntWalk(r.values, next, steps + 1, sol \cup {chosen}, m)
                        ELSE {[valid |-> FALSE, solution |-> sol]}
                    : i \in DOMAIN vals[s]}
        ELSE AntWalk(vals, next, steps + 1, sol, m)

\* the first ant with the largest count of fixed cells: max(valid_ants, key)
BestAnt(ants) ==
    CHOOSE i \in DOMAIN ants :
        /\ \A j \in DOMAIN ants : ants[j].fixed <= ants[i].fixed
        /\ \A j \in 1..(i - 1) : ants[j].fixed < ants[i].fixed

\* ACOSolver.__init__ on the dict of a puzzle
ACOConstruct ==
    /\ pc = "new"
    /\ method = "ACOSolver"
    /\ LET m == initialize_structures(size)
           r == _initialize_values(grid_dict, m)
       IN  /\ model' = m
           /\ values' = r.values
           /\ pc' = IF r.ok THEN "cycle" ELSE "ValueError"
           /\ pheromone' = IF r.ok THEN initial_pheromone(m) ELSE pheromone
    /\ best_pheromone_to_add' = <<0, 1>>
    /\ best_solution' = NoValue
    /\ best_fixed' = 0
    /\ UNCHANGED <<neighbor_accepted, swarmvars>>
    /\ UNCHANGED <<method, size, grid_dict, solvevars, population_size, num_ants,
                   self_grid, population, fitnesses, trials, sum_fitness, best_fitness,
                   cycle, bee, left, yielded>>

\* ACOSolver.solve, lines 70-119: one pass of the while loop, up to its yield.
\* random.sample raises ValueError for more ants than cells.  The ants walk
\* independently of each other, and every choice of an ant is followed by a
\* local pheromone update.  self.best_pheromone_to_add is positive from the
\* first best solution on, so _global_pheromone_update returns early only
\* without a best solution; it raises ValueError at line 153.
ACOCycle ==
    /\ pc = "cycle"
    /\ method = "ACOSolver"
    /\ LET cells == Len(model.squares)
           walks == UNION {{<<ci, a>> : a \in AntWalk(values, ci, 0, {}, model)}
                           : ci \in 1..cells}
           table == LocalUpdateTable(pheromone, num_ants, model)
       IN  IF num_ants > cells
           THEN /\ pc' = "ValueError"
                /\ UNCHANGED <<best_solution, best_fixed, yielded, acovars>>
           ELSE \E ws \in [1..num_ants -> walks] :
                  /\ \A i, j \in 1..num_ants : i # j => ws[i][1] # ws[j][1]
                  /\ LET ants == [i \in 1..num_ants |-> ws[i][2]]
                         valid_ants == SelectSeq(ants, LAMBDA a : a.valid)
                         local == LocalUpdates(pheromone, ants, table)
                     IN  IF valid_ants = <<>>
                         THEN /\ yielded' = [solution |-> <<>>, score |-> <<0, 1>>]
                              /\ pheromone' = local
                              /\ UNCHANGED <<pc, best_solution, best_fixed,
                                             best_pheromone_to_add>>
                         ELSE LET iteration_best == valid_ants[BestAnt(valid_ants)]
                                  better == iteration_best.fixed >= best_fixed
                                  solution == IF better THEN iteration_best.values
                                              ELSE best_solution
                                  fixed == IF better THEN iteration_best.fixed
                                           ELSE best_fixed
                                  bonus == IF /\ better
                                              /\ ~FracLeq(delta_tau(fixed, model),
                                                          best_pheromone_to_add)
                                           THEN delta_tau(fixed, model)
                                           ELSE best_pheromone_to_add
                                  g == _global_pheromone_update(local, solution, bonus,
                                                                model)
                              IN  /\ best_solution' = solution
                                  /\ best_fixed' = fixed
                                  /\ pheromone' = g.pheromone
                                  /\ IF ~g.ok
                                     THEN /\ pc' = "ValueError"
                                          /\ best_pheromone_to_add' = bonus
                                          /\ UNCHANGED yielded
                                     ELSE /\ best_pheromone_to_add' =
                                                 FracMul(bonus, FracCompl(bve_rate))
                                          /\ yielded' = [solution |-> solution,
                                                         score |-> <<fixed, cells>>]
                                          /\ pc' = IF fixed = cells THEN "final" ELSE "cycle"
    /\ UNCHANGED <<neighbor_accepted, swarmvars>>
    /\ UNCHANGED <<method, size, model, grid_dict, values, solvevars, population_size,
                   num_ants, self_grid, population, fitnesses, trials, sum_fitness,
                   best_fitness, cycle, bee, left>>

---------------------------------------------------------------------------
(* hybrid_abc_cp.py: evaluate, called on an assignment of a board of any
   size that the row alphabet supports *)

\* evaluate is called on boards of sizes up to MaxEvalSize
MaxEvalSize == 26
EvalSizes == 1..Min2(MaxEvalSize, Len(RowAlphabet))

\* the assignment with one candidate in the first k cells and every digit in
\* the other cells
SolvedUpTo(m, k) ==
    [s \in Range(m.squares) |->
        IF (s[1] - 1) * Len(m.cols) + s[2] <= k THEN <<1>>
        ELSE [i \in 1..Len(m.digits) |-> i]]

\* an assignment is about to be handed to evaluate
InitEval ==
    /\ method = "HybridABCSolver.evaluate"
    /\ size \in EvalSizes
    /\ model = initialize_structures(size)
    /\ values \in {SolvedUpTo(model, k) : k \in 0..(size * size)}
    /\ pc = "call"
    /\ grid = NoValue /\ grid_dict = NoValue
    /\ stack = <<>> /\ new_values = NoValue
    /\ arg = NoValue /\ ret = NoValue /\ result = NoValue
    /\ PopIdle

\* self.evaluate(values) and the test of solve, line 73, on what it returned
HybridEvaluate ==
    /\ pc = "call"
    /\ method = "HybridABCSolver.evaluate"
    /\ result' = hybrid_evaluate(model, values)
    /\ pc' = IF FracLeq(hybrid_threshold, result') THEN "stop" ELSE "continue"
    /\ UNCHANGED <<method, size, grid, model, grid_dict, values, stack, new_values, arg,
                   ret, popvars>>

NextEval == HybridEvaluate

SpecEval == InitEval /\ [][NextEval]_vars

---------------------------------------------------------------------------
(* msabc_solver.py *)

\* -np.inf, as a fraction below every fitness
NegInf == <<-1, 0>>

\* the ABCSolver objects the constructor can build for the grid g with a
\* population of psize members: abc_solver.py, lines 21-25
ABCSolverObjects(m, g, psize) ==
    {LET fits == [i \in 1..psize |-> evaluate(m, pop[i])]
     IN  [grid |-> g, population |-> pop, fitnesses |-> fits,
          best_solution |-> pop[FirstMax(fits)], best_fitness |-> fits[FirstMax(fits)],
          trials |-> [i \in 1..psize |-> 0]]
     : pop \in [1..psize -> InitSolutions(m, g)]}

\* MSABCSolver.__init__: one ABCSolver per swarm, no global best yet
MSABCConstruct ==
    /\ pc = "new"
    /\ method = "MSABCSolver"
    /\ LET m == initialize_structures(size)
           g == parse_input(grid_dict, m)
       IN  /\ model' = m
           /\ swarms' \in [1..num_swarms -> ABCSolverObjects(m, g, population_size)]
    /\ global_best' = NoValue
    /\ global_fitness' = NegInf
    /\ pc' = "cycle"
    /\ UNCHANGED <<method, size, grid_dict, values, solvevars, population_size, num_ants,
                   self_grid, population, fitnesses, trials, sum_fitness, best_solution,
                   best_fitness, best_fixed, cycle, bee, left, yielded,
                   neighbor_accepted, num_swarms, msabc_max_cycles, acovars>>

\* MSABCSolver.solve, lines 19-21: the first request for a pair.  With no
\* cycle to run the generator ends; otherwise line 21 reads self.subswarms,
\* which no line of the class sets, and raises AttributeError
MSABCCycle ==
    /\ pc = "cycle"
    /\ method = "MSABCSolver"
    /\ pc' = IF cycle < msabc_max_cycles THEN "AttributeError" ELSE "exhausted"
    /\ UNCHANGED <<method, size, model, grid_dict, values, solvevars, population_size,
                   num_ants, self_grid, population, fitnesses, trials, sum_fitness,
                   best_solution, best_fitness, best_fixed, cycle, bee, left, yielded,
                   neighbor_accepted, swarmvars, acovars>>

NextPop ==
    \/ ABCConstruct
    \/ ABCCycle
    \/ ABCEmployed
    \/ ABCOnlookerNext
    \/ ABCOnlooker
    \/ ABCScout
    \/ HybridConstruct
    \/ HybridCycle
    \/ ACOConstruct
    \/ ACOCycle
    \/ MSABCConstruct
    \/ MSABCCycle

SpecPop == InitPop /\ [][NextPop]_vars

---------------------------------------------------------------------------
(* Properties of the population solvers *)

\* no two clue cells of one subgrid hold the same digit
NoSubgridRepeat ==
    \A s, t \in DOMAIN self_grid :
        (s # t /\ self_grid[s] # 0 /\ t \in Range(Block(model, s))) =>
            self_grid[s] # self_grid[t]

\* every subgrid of the grid g holds each digit 1..N exactly once
SubgridsArePermutations(m, g) ==
    /\ DOMAIN g = Range(m.squares)
    /\ \A s \in DOMAIN g : {g[t] : t \in Range(Block(m, s))} = 1..Len(m.cols)

\* C3: whenever ABCSolver.solve yields a pair with score 1.0, the grid of the
\* pair is a complete valid solution: every row, column and subgrid holds
\* each digit 1..N exactly once and every clue cell holds its clue digit
C3_ScoreOneIsSolution ==
    (method = "ABCSolver" /\ yielded # NoValue /\ yielded.score[1] = yielded.score[2]) =>
        /\ ValidGrid(model, yielded.solution)
        /\ KeepsClues(model, grid_dict, yielded.solution)

\* C9: for a puzzle whose clues do not repeat within a subgrid, every member
\* of the population of ABCSolver, after construction and after every
\* employed, onlooker and scout step, is a complete grid whose subgrids each
\* hold every digit 1..N exactly once and whose clue cells hold their clues
C9_SubgridsStayPermutations ==
    (method = "ABCSolver" /\ population # NoValue /\ NoSubgridRepeat) =>
        \A i \in DOMAIN population :
            /\ SubgridsArePermutations(model, population[i])
            /\ \A s \in DOMAIN self_grid :
                  self_grid[s] # 0 => population[i][s] = self_grid[s]

\* members that differ have been through employed and onlooker steps for more
\* cycles than the scout limit, and a scout is due
C9_Witness ==
    /\ method = "ABCSolver" /\ population # NoValue /\ NoSubgridRepeat
    /\ pc = "scout" /\ MaxOf(trials) > scout_limit
    /\ \E i, j \in DOMAIN population : population[i] # population[j]

\* C10: within one run the tracked best score never decreases: best_fitness
\* of ABCSolver and of HybridABCSolver, and best_fixed of ACOSolver, are at
\* every step at least what they were before
C10_BestNeverDecreases ==
    [][/\ (pc # "new" /\ method \in {"ABCSolver", "HybridABCSolver"}) =>
             FracLeq(best_fitness, best_fitness')
       /\ (pc # "new" /\ method = "ACOSolver") => best_fixed <= best_fixed']_vars

\* the best fitness of ABCSolver is above the score that ended the last cycle
C10_Witness ==
    /\ method = "ABCSolver" /\ yielded # NoValue
    /\ ~FracLeq(best_fitness, yielded.score)

\* the best count of ACOSolver has grown after a cycle that yielded 0.0
C10_WitnessACO ==
    /\ method = "ACOSolver" /\ yielded # NoValue
    /\ best_fixed > 0

\* HybridABCSolver was constructed and its solve yielded its best fitness
C10_WitnessHybrid ==
    /\ method = "HybridABCSolver" /\ pc = "returned"
    /\ best_fitness = <<1, 1>>


\* C11: ABCSolver.solve is a finite sequence: it runs at most max_cycles
\* cycles, and no request for its next pair is stuck in neighbor_search,
\* neither in the loop that draws a free cell nor in the loop that draws a
\* member that differs from the current one
C11_SolveIsFinite ==
    method = "ABCSolver" =>
        /\ pc # "hang"
        /\ cycle <= max_cycles


\* the constructor of ACOSolver accepted the puzzle
ACOAccepted ==
    /\ method = "ACOSolver" /\ model # NoValue
    /\ _initialize_values(grid_dict, model).ok

\* C12: ACOSolver.solve terminates like the Bee-Colony solver: once the
\* solver is constructed, its sequence of pairs ends only after a pair with
\* score 1.0 (the model follows fewer cycles than any cycle budget); stated
\* for solvers that have a starting cell for every ant
C12_EndsAfterScoreOne ==
    (ACOAccepted /\ num_ants <= Len(model.squares) /\ pc # "cycle") =>
        /\ yielded # NoValue
        /\ yielded.score[1] = yielded.score[2]


\* C13: every request for the next pair of MSABCSolver.solve is answered:
\* the cycle runs every sub-swarm, no sub-swarm's best fitness is above the
\* global one afterwards, the pair yielded is (global_best, global_fitness),
\* and the sequence ends only at a global fitness of 1.0 or after max_cycles
\* cycles
C13_CycleAdvancesSwarms ==
    method = "MSABCSolver" =>
        /\ pc # "AttributeError"
        /\ yielded # NoValue =>
              /\ yielded = [solution |-> global_best, score |-> global_fitness]
              /\ \A k \in DOMAIN swarms : FracLeq(swarms[k].best_fitness, global_fitness)
        /\ pc = "exhausted" => cycle = msabc_max_cycles


---------------------------------------------------------------------------
(* Further properties of sudo.py *)

\* the unit rule on an assignment v: every unit has a cell that admits digit
\* d, and a unit with exactly one such cell has d as the only candidate there
UnitRuleHolds(m, v) ==
    \A k \in DOMAIN m.unitlist : \A d \in DOMAIN m.digits :
        LET dplaces == {s \in Range(m.unitlist[k]) : Contains(v[s], d)}
        IN  /\ dplaces # {}
            /\ Cardinality(dplaces) = 1 => \A s \in dplaces : v[s] = <<d>>

\* C14: an assignment that parse_grid or a speculative assign of search
\* built with sudo.eliminate without failure obeys the unit rule: in every
\* unit every digit is admitted by some cell, and a digit that one cell only
\* admits is that cell's only candidate
C14_EliminateAppliesUnitRule ==
    (method = "solve" /\ pc = "search" /\ arg.ok) => UnitRuleHolds(model, arg.values)


---------------------------------------------------------------------------
(* Further properties of the population solvers *)

\* C16: at the end of every cycle of ABCSolver.solve, after the scout phase,
\* no member has a trial counter above the scout limit: every member whose
\* counter exceeded the limit was replaced and its counter reset to 0
C16_NoTrialAboveLimit ==
    (method = "ABCSolver" /\ pc = "cycle" /\ cycle > 0) =>
        \A i \in DOMAIN trials : trials[i] <= scout_limit


\* C17: trials[i] counts the consecutive rejected neighbour attempts on
\* member i in both phases: every pass of the employed loop and every pass of
\* the onlooker loop resets the counter of its member when the neighbour is
\* accepted and adds one to it when the neighbour is rejected, and changes
\* no other counter
C17_TrialsCountRejections ==
    [][(/\ method = "ABCSolver"
        /\ pc = "employed" \/ (pc = "onlooker" /\ left > 0)
        /\ pc' # "hang") =>
            trials' = [trials EXCEPT ![bee] = IF neighbor_accepted' THEN 0 ELSE @ + 1]]_vars


\* every candidate that the assignment v lacks against the puzzle is
\* accounted for by an assign that succeeded: its cell holds one candidate,
\* or a peer of its cell holds that candidate alone
NoTraceOfFailedAssign(m, puzzle, v) ==
    \A s \in DOMAIN puzzle : \A k \in DOMAIN puzzle[s] :
        Contains(v[s], puzzle[s][k]) \/ Len(v[s]) = 1
            \/ \E p \in Range(m.peers[s]) : v[p] = <<puzzle[s][k]>>

\* C18: the per-cell attempts of create_cp_solution and the attempts of
\* neighbor_search try the candidates of a cell one after the other, each
\* on its own copy, and return an assignment: the first one whose Assign
\* succeeds, or the unmodified parent.  So every HybridABCSolver whose
\* puzzle was taken in gets its population, no member shows an elimination
\* of a failed attempt, and neighbor_search on a member with an open cell
\* returns
C18_FailedAttemptsLeaveNoTrace ==
    (method = "HybridABCSolver" /\ values # NoValue) =>
        /\ pc # "TypeError"
        /\ population # NoValue =>
              \A i \in DOMAIN population :
                  /\ NoTraceOfFailedAssign(model, values, population[i])
                  /\ LET fixed_cells == {s \in DOMAIN values : Len(values[s]) = 1}
                         ends == hybrid_neighbor_search(model, fixed_cells, population[i])
                     IN  ends = "TypeError" => FALSE


\* the fractions a and b are equal
FracEq(a, b) == a[1] * b[2] = b[1] * a[2]

\* C19: every cycle of ACOSolver.solve ends by yielding the solver's current
\* best assignment together with the score best_fixed / (N*N), so that the
\* scores yielded in one run never decrease, also in a cycle in which every
\* ant hit a contradiction
C19_CycleYieldsBest ==
    [][(/\ method = "ACOSolver" /\ pc = "cycle"
        /\ num_ants <= Len(model.squares)) =>
            /\ yielded' # NoValue
            /\ yielded'.solution = best_solution'
            /\ FracEq(yielded'.score, <<best_fixed', Len(model.squares)>>)
            /\ yielded # NoValue => FracLeq(yielded.score, yielded'.score)]_vars


\* C20: HybridABCSolver.solve yields one pair per cycle, after the employed,
\* onlooker and scout phases of the cycle: a solver is there to be asked for
\* pairs, and whenever a pair has been yielded solve stands between two
\* cycles (or has returned) and the pair is the best pair of that moment
C20_OnePairPerCycle ==
    (method = "HybridABCSolver" /\ pc # "new") =>
        /\ pc # "TypeError"
        /\ yielded # NoValue =>
              /\ pc \in {"cycle", "returned"}
              /\ yielded.solution = best_solution
              /\ FracLeq(best_fitness, yielded.score)


\* C21: _global_pheromone_update, run once per cycle, evaporates every entry
\* of the pheromone matrix and adds the bonus to the entries of the best
\* solution only.  For the first cycle that has a best solution: the update
\* comes back, no entry is below 0 afterwards, and every entry outside the
\* best solution, which was at most tau0 before, is at most
\* (1 - evaporation_rate) * tau0
C21_GlobalUpdateEvaporates ==
    [][(/\ method = "ACOSolver" /\ pc = "cycle"
        /\ best_solution = NoValue /\ best_solution' # NoValue) =>
            /\ pc' # "ValueError"
            /\ \A c \in DOMAIN pheromone' : \A d \in DOMAIN pheromone'[c] :
                  /\ pheromone'[c][d][1] >= 0
                  /\ best_solution'[model.squares[c]] # <<d>> =>
                        FracLeq(pheromone'[c][d],
                                FracMul(FracCompl(evaporation_rate), tau0(model)))]_vars


\* C22: at the end of every cycle of HybridABCSolver.solve, the scout phase
\* included, best_fitness is at least the fitness of every member: a solver
\* that the constructor was asked for has its population and fitnesses, and
\* between two cycles no fitness is above best_fitness
C22_BestCoversPopulation ==
    (method = "HybridABCSolver" /\ pc # "new") =>
        /\ fitnesses # NoValue
        /\ \A i \in DOMAIN fitnesses : FracLeq(fitnesses[i], best_fitness)


\* C23: HybridABCSolver.solve does not get stuck once a member is fully
\* solved: a neighbour search on a member of fitness 1.0 comes back, as every
\* other neighbour search of the cycle does
C23_SolvedMemberDoesNotHang ==
    (method = "HybridABCSolver" /\ population # NoValue) =>
        \A i \in DOMAIN population :
            LET fixed_cells == {s \in DOMAIN values : Len(values[s]) = 1}
            IN  fitnesses[i] = <<1, 1>> =>
                    hybrid_neighbor_search(model, fixed_cells, population[i]) # "hang"


\* C24: for every board size N from 1 to 26 and every count k of solved
\* cells, HybridABCSolver.evaluate returns a value of at least 0.999 only
\* when k = N*N, and then it returns 1.0: the test of solve stops on no
\* assignment with an unsolved cell, and stops on every solved one
C24_ThresholdMeansSolved ==
    (method = "HybridABCSolver.evaluate" /\ pc # "call") =>
        LET solved == \A s \in DOMAIN values : Len(values[s]) = 1
        IN  /\ pc = "stop" <=> solved
            /\ FracLeq(hybrid_threshold, result) <=> result = <<1, 1>>
            /\ result = <<1, 1>> <=> solved

\* evaluate has returned its largest value below 1.0: one cell of a board of
\* size 26 is unsolved
C24_Witness ==
    /\ method = "HybridABCSolver.evaluate" /\ pc = "continue"
    /\ size = 26
    /\ result = <<675, 676>>

=============================================================================
